---- MODULE Spec2Model ----
(***************************************************************************)
(* dicom-send: private-tag allocation (tagger.py and the two gear          *)
(* versions of tag_and_transmit.add_private_tag), and the tag-and-transmit *)
(* loop with its retry of congested transmissions.                         *)
(*                                                                         *)
(* Strings are sequences of ASCII codes, so that lower() and startswith()  *)
(* are computed and not assumed.  A DICOM object is the content of its     *)
(* configured private group: the creator elements 0x10..0xFE and, for each *)
(* creator offset that has any, the 256 data elements of its block.        *)
(***************************************************************************)
EXTENDS Integers, Sequences, FiniteSets, TLC

\* ------------------------------------------------------------------------
\* Strings
\* ------------------------------------------------------------------------

\* "Flywheel": default identifier
Flywheel == <<70, 108, 121, 119, 104, 101, 101, 108>>
\* "FLYWHEEL": the same identifier in another case
FLYWHEEL == <<70, 76, 89, 87, 72, 69, 69, 76>>
\* "Not Flywheel": a creator of another owner (tests/test_tagger.py)
NotFlywheel == <<78, 111, 116, 32, 70, 108, 121, 119, 104, 101, 101, 108>>
\* "DICOM Send": default tag value
DicomSend == <<68, 73, 67, 79, 77, 32, 83, 101, 110, 100>>
\* "dicom send 2": starts with the tag value, in another case
DicomSendLower2 == <<100, 105, 99, 111, 109, 32, 115, 101, 110, 100, 32, 50>>
\* "Not DICOM Send": a data element of another meaning (tests/test_tagger.py)
NotDicomSend == <<78, 111, 116, 32, 68, 73, 67, 79, 77, 32, 83, 101, 110, 100>>

\* str.lower() on ASCII
LowerChar(c) == IF c >= 65 /\ c <= 90 THEN c + 32 ELSE c
Lower(s) == [i \in 1..Len(s) |-> LowerChar(s[i])]

\* str.startswith()
StartsWith(s, prefix) ==
    /\ Len(prefix) <= Len(s)
    /\ SubSeq(s, 1, Len(prefix)) = prefix

\* int(group, 16) of the configured group "0x0021": hexadecimal digits after
\* the 0x prefix, most significant first
GroupDigits == <<0, 0, 2, 1>>
RECURSIVE HexInt(_, _)
HexInt(digits, acc) ==
    IF digits = <<>> THEN acc
    ELSE HexInt(Tail(digits), acc * 16 + Head(digits))

Group == HexInt(GroupDigits, 0)

\* ------------------------------------------------------------------------
\* Dataset
\* ------------------------------------------------------------------------

\* Python's None, as the private_tag local and as a missing return value
None == <<>>

\* Dataset.get(tag) found no element (no string holds the code -1)
Absent == <<-1>>

\* range(0x0010, 0x00FF): creator offsets 0x10..0xFE
FirstCreator == 16
EndCreator == 255
\* 0x0100: elements per creator block
BlockSize == 256

EmptyBlock == [i \in 0..(BlockSize - 1) |-> Absent]

\* pydicom.Dataset(): no element at all
EmptyDataset ==
    [creators |-> [e \in FirstCreator..(EndCreator - 1) |-> Absent],
     blocks |-> <<>>]

\* Dataset.get((group, elem)) for an element of the private group
get(ds, elem) ==
    IF elem < EndCreator THEN ds.creators[elem]
    ELSE IF (elem \div BlockSize) \in DOMAIN ds.blocks
    THEN ds.blocks[elem \div BlockSize][elem % BlockSize]
    ELSE Absent

\* "if data_elem:" is true exactly when the element exists
HasElem(ds, elem) == get(ds, elem) # Absent

\* Dataset.add_new(tag, 'LO', value): sets, replacing an existing element
add_new(ds, elem, value) ==
    IF elem < EndCreator
    THEN [ds EXCEPT !.creators[elem] = value]
    ELSE LET o == elem \div BlockSize
             i == elem % BlockSize
             old == IF o \in DOMAIN ds.blocks THEN ds.blocks[o] ELSE EmptyBlock
         IN  [ds EXCEPT !.blocks =
                 [k \in (DOMAIN ds.blocks) \cup {o} |->
                     IF k = o THEN [old EXCEPT ![i] = value]
                     ELSE ds.blocks[k]]]

\* the block start computed with the wrong factor (0x10 for 0x0100)
BlockFirst_factor16(elem) == elem * 16

BlockFirst(elem) == elem * BlockSize
BlockEnd(elem) == elem * BlockSize + BlockSize

\* str.__contains__: sub in s
Contains(s, sub) ==
    \E k \in 0..(Len(s) - Len(sub)) : SubSeq(s, k + 1, k + Len(sub)) = sub

\* the comparison written as containment: identifier.lower() in value.lower()
CreatorMatches_contains(value, identifier) ==
    Contains(Lower(value), Lower(identifier))

\* data_elem.value.lower() == identifier.lower()
CreatorMatches(value, identifier) == Lower(value) = Lower(identifier)

\* the comparison with the element's value not lowered
TagMatches_valueNotLowered(value, tag_value) ==
    StartsWith(value, Lower(tag_value))

\* private_elem.value.lower().startswith(tag_value.lower())
TagMatches(value, tag_value) == StartsWith(Lower(value), Lower(tag_value))

Min(S) == CHOOSE x \in S : \A y \in S : x <= y
Max(S) == CHOOSE x \in S : \A y \in S : x >= y

\* a scan that found no element to return at
NoHit == -1

\* the element of a one-element set; {e(x) : x \in {v}} below gives the
\* value v a name in e
Only(S) == CHOOSE x \in S : TRUE

\* one pass of the inner loop's body returns: the element is free
\* ("if not private_elem") or it starts with the tag value
BlockStop(ds, private_tag_element, tag_value) ==
    \/ ~HasElem(ds, private_tag_element)
    \/ TagMatches(get(ds, private_tag_element), tag_value)

\* the first element of lo..hi, ascending, at which the inner loop returns
RECURSIVE first_block_stop(_, _, _, _)
first_block_stop(ds, tag_value, lo, hi) ==
    IF lo = hi
    THEN (IF BlockStop(ds, lo, tag_value) THEN lo ELSE NoHit)
    ELSE Only({Only({IF left # NoHit THEN left
                     ELSE first_block_stop(ds, tag_value, mid + 1, hi) :
                     left \in {first_block_stop(ds, tag_value, lo, mid)}}) :
               mid \in {(lo + hi) \div 2}})

\* the inner loop over range(elem * 0x0100, elem * 0x0100 + 0x0100): it
\* returns at the first element that is free (which it writes) or that
\* starts with the tag value; when there is none the loop ends with
\* private_tag left at the last element of the block
scan_block(ds, g, elem_tag, tag_value) ==
    Only({IF private_tag_element = NoHit
          THEN [kind |-> "full", ds |-> ds,
                private_tag |-> <<g, BlockEnd(elem_tag) - 1>>]
          ELSE IF ~HasElem(ds, private_tag_element)
          THEN [kind |-> "added",
                ds |-> add_new(ds, private_tag_element, tag_value),
                private_tag |-> <<g, private_tag_element>>]
          ELSE [kind |-> "found", ds |-> ds,
                private_tag |-> <<g, private_tag_element>>] :
          private_tag_element \in
              {first_block_stop(ds, tag_value, BlockFirst(elem_tag),
                                BlockEnd(elem_tag) - 1)}})

\* one pass of the outer loop's body returns: the offset is free (the else
\* branch) or it holds the identifier and the scan of its block returns
CreatorStop(ds, g, elem_tag, identifier, tag_value) ==
    \/ ~HasElem(ds, elem_tag)
    \/ /\ CreatorMatches(get(ds, elem_tag), identifier)
       /\ scan_block(ds, g, elem_tag, tag_value).kind # "full"

\* the first offset of lo..hi, ascending, at which the outer loop returns
RECURSIVE first_creator_stop(_, _, _, _, _, _)
first_creator_stop(ds, g, identifier, tag_value, lo, hi) ==
    IF lo = hi
    THEN (IF CreatorStop(ds, g, lo, identifier, tag_value) THEN lo ELSE NoHit)
    ELSE Only({Only({IF left # NoHit THEN left
                     ELSE first_creator_stop(ds, g, identifier, tag_value,
                                             mid + 1, hi) :
                     left \in {first_creator_stop(ds, g, identifier, tag_value,
                                                  lo, mid)}}) :
               mid \in {(lo + hi) \div 2}})

\* the creator offsets of range(0x0010, 0x00FF) holding the identifier
OwnCreators(ds, identifier) ==
    {e \in FirstCreator..(EndCreator - 1) :
        HasElem(ds, e) /\ CreatorMatches(get(ds, e), identifier)}

\* the outer loop over range(0x0010, 0x00FF): the object is not changed
\* before the offset at which the loop returns.  When the loop ends without
\* returning, private_tag is None unless a block was scanned, and then it
\* is the last element of the last block scanned
scan_creators(ds, g, identifier, tag_value) ==
    Only({IF elem_tag = NoHit
          THEN Only({[returned |-> FALSE, ds |-> ds,
                      private_tag |-> IF own = {} THEN None
                                      ELSE <<g, BlockEnd(Max(own)) - 1>>,
                      scanned |-> EndCreator - FirstCreator] :
                     own \in {OwnCreators(ds, identifier)}})
          ELSE IF HasElem(ds, elem_tag)
          THEN Only({[returned |-> TRUE, ds |-> b.ds,
                      private_tag |-> b.private_tag,
                      scanned |-> elem_tag - FirstCreator + 1] :
                     b \in {scan_block(ds, g, elem_tag, tag_value)}})
          ELSE [returned |-> TRUE,
                ds |-> add_new(add_new(ds, elem_tag, identifier),
                               BlockFirst(elem_tag), tag_value),
                private_tag |-> <<g, BlockFirst(elem_tag)>>,
                scanned |-> elem_tag - FirstCreator + 1] :
          elem_tag \in {first_creator_stop(ds, g, identifier, tag_value,
                                           FirstCreator, EndCreator - 1)}})

\* tagger.add_private_tag: TagError whenever the loop ends
tagger_add_private_tag(ds, g, identifier, tag_value) ==
    Only({IF r.returned
          THEN [outcome |-> "return", ds |-> r.ds, slot |-> r.private_tag,
                scanned |-> r.scanned]
          ELSE [outcome |-> "TagError", ds |-> r.ds, slot |-> None,
                scanned |-> r.scanned] :
          r \in {scan_creators(ds, g, identifier, tag_value)}})

\* fw_gear_dicom_send and utils add_private_tag: sys.exit(1) only when
\* private_tag is still None after the loop, else the function ends
\* without a return statement
gear_add_private_tag(ds, g, identifier, tag_value) ==
    Only({IF r.returned
          THEN [outcome |-> "return", ds |-> r.ds, slot |-> r.private_tag,
                scanned |-> r.scanned]
          ELSE IF r.private_tag = None
          THEN [outcome |-> "exit", ds |-> r.ds, slot |-> None,
                scanned |-> r.scanned]
          ELSE [outcome |-> "return_none", ds |-> r.ds, slot |-> None,
                scanned |-> r.scanned] :
          r \in {scan_creators(ds, g, identifier, tag_value)}})

Impls == {"tagger", "gear"}

add_private_tag(impl, ds, g, identifier, tag_value) ==
    IF impl = "tagger"
    THEN tagger_add_private_tag(ds, g, identifier, tag_value)
    ELSE gear_add_private_tag(ds, g, identifier, tag_value)

\* ------------------------------------------------------------------------
\* Objects given to add_private_tag
\* ------------------------------------------------------------------------

\* how many leading creator offsets (from 0x10) belong to another owner;
\* FullPrefix fills the whole range as tests/test_tagger.py does
FullPrefix == EndCreator - FirstCreator
OtherPrefixes == {0, 1, FullPrefix}
\* offsets that may hold the identifier's own creator
OwnOffsets == {16, 17, 254}
\* how many leading elements of the first own block are taken by other data
BlockFills == {0, 1, BlockSize - 1, BlockSize}
\* position in the first own block of an element that starts with the tag
\* value (-1: none)
MatchPositions == {-1, 0, 1, BlockSize - 1}
\* creator offset whose block start holds a stray data element (0: none)
StrayOffsets == {0, 16, 17, 18}

MakeObj(n, owns, fill, mpos, stray) ==
    LET f == IF owns = {} THEN 0 ELSE Min(owns)
        keys == (IF owns # {} /\ (fill > 0 \/ mpos >= 0) THEN {f} ELSE {})
                \cup (IF stray # 0 THEN {stray} ELSE {})
    IN  [creators |->
            [e \in FirstCreator..(EndCreator - 1) |->
                IF e \in owns THEN Flywheel
                ELSE IF e < FirstCreator + n THEN NotFlywheel
                ELSE Absent],
         blocks |->
            [k \in keys |->
                [i \in 0..(BlockSize - 1) |->
                    IF owns # {} /\ k = f /\ i = mpos THEN DicomSendLower2
                    ELSE IF owns # {} /\ k = f /\ i < fill THEN NotDicomSend
                    ELSE IF k = stray /\ i = 0 THEN NotDicomSend
                    ELSE Absent]]]

Objects ==
    {MakeObj(n, owns, fill, mpos, stray) :
        n \in OtherPrefixes, owns \in SUBSET OwnOffsets, fill \in BlockFills,
        mpos \in MatchPositions, stray \in StrayOffsets}

Identifiers == {Flywheel, FLYWHEEL}

\* ------------------------------------------------------------------------
\* State
\* ------------------------------------------------------------------------

VARIABLES
    dicomfile,   \* the object add_private_tag works on
    before,      \* the object as it was before the most recent call
    original,    \* the object as it was before the first call
    identifier,  \* the identifier argument
    tag_value,   \* the tag value argument
    impl,        \* which add_private_tag is called
    calls,       \* what each call made so far returned or raised
    variant,     \* which tag_and_transmit module runs: "gear" or "utils"
    pc,          \* where tag_and_transmit.run stands
    nfiles,      \* how many files the working directory holds
    idx,         \* how many files the loop has taken so far
    disk,        \* the current file's object as it is on disk
    dicoms_present,
    dicoms_sent,
    dicom_transmitted,  \* run's local: "unbound", "True" or "False"
    tries,       \* backoff: invocations of transmit_dicom_file for this file
    clock,       \* seconds since backoff took its start time for this file
    elapsed,     \* backoff: the elapsed time it read before the invocation
    wait,        \* backoff: seconds of the pending sleep
    storescu,    \* exit code and stderr marker of the last invocation
    outcomes,    \* per file: how tagging and transmission ended
    abort_cause  \* the exception that left run, if any

VARIABLES
    tls_config,  \* gear_context.config: the keys it holds and their values
    tls_key,     \* gear_context.get_input_path("key")
    tls_cert,    \* gear_context.get_input_path("cert")
    tls_parsed,  \* how parse_tls_opts ended, and the TLSOpt it built
    gear_pc,     \* where the gear stands: "start", "args", "exit", "raised"
    tool_commands  \* the TLS arguments of each storescu command issued

tlsvars == <<tls_config, tls_key, tls_cert, tls_parsed, gear_pc, tool_commands>>

VARIABLES
    send_variant,  \* which dicom_send module runs: "gear" or "utils"
    download,    \* main's download: the session's files are the input
    send_pc,     \* where main, download_and_send and dicom_send.run stand
    ninputs,     \* how many files of type dicom the input consists of
    infile,      \* the input file most recently given to dicom_send.run
    work_dir,    \* the members the working directory holds
    ledger,      \* the lines of dicom-send-report.csv (<<>>: no such file)
    published,   \* upload_report has renamed and uploaded the ledger
    totals,      \* download_and_send's dcms_present, dcms_sent, DATA_FLAG
    exit_status, \* the status the process ended with (-1: it has not ended)
    exit_cause,  \* which statement ended the process
    processed    \* per dicom_send.run call that returned: name and counts

sendvars == <<send_variant, download, send_pc, ninputs, infile, work_dir,
              ledger, published, totals, exit_status, exit_cause, processed>>

VARIABLES
    dcm_keys,    \* is_dcm's keys: what the keywords of dcm.dir() resolve to
    dcm_result   \* how the is_dcm call ended ("none": is_dcm was not called)

dcmvars == <<dcm_keys, dcm_result>>

VARIABLES
    running,     \* how many storescu processes were started and not waited for
    downloads    \* how many download_file calls download_and_send has made

seqvars == <<running, downloads>>

\* the state outside add_private_tag and tag_and_transmit.run
gearvars == <<tlsvars, sendvars, dcmvars, seqvars>>

tagvars == <<before, original, identifier, tag_value, impl, calls>>

runvars == <<variant, pc, nfiles, idx, disk, dicoms_present, dicoms_sent,
             dicom_transmitted, tries, clock, elapsed, wait, storescu,
             outcomes, abort_cause>>

\* runvars without pc
runvars_but_pc == <<variant, nfiles, idx, disk, dicoms_present, dicoms_sent,
                    dicom_transmitted, tries, clock, elapsed, wait, storescu,
                    outcomes, abort_cause>>

vars == <<dicomfile, tagvars, runvars, gearvars>>

\* ------------------------------------------------------------------------
\* Repeated calls of add_private_tag on one object
\* ------------------------------------------------------------------------

MaxCalls == 2

\* no storescu invocation yet
NoResult == [returncode |-> -1, marker |-> FALSE]

\* tag_and_transmit.run is not running
RunIdle ==
    /\ variant = "gear"
    /\ pc = "idle"
    /\ nfiles = 0
    /\ idx = 0
    /\ disk = EmptyDataset
    /\ dicoms_present = 0
    /\ dicoms_sent = 0
    /\ dicom_transmitted = "unbound"
    /\ tries = 0
    /\ clock = 0
    /\ elapsed = 0
    /\ wait = 0
    /\ storescu = NoResult
    /\ outcomes = <<>>
    /\ abort_cause = "none"

\* the TLSOpt() defaults that matter to validate and command
DefaultOpts == [enabled |-> "disabled", key |-> "None", cert |-> "None"]

\* parse_tls_opts has not been called
NotParsed == [kind |-> "none", opts |-> DefaultOpts]

\* generate_gear_args is not running
TlsIdle ==
    /\ tls_config = <<>>
    /\ tls_key = "None"
    /\ tls_cert = "None"
    /\ tls_parsed = NotParsed
    /\ gear_pc = "idle"
    /\ tool_commands = <<>>

\* an input file: its kind, and for an archive its members
NoInput == [kind |-> "none", members |-> <<>>]

\* DICOMS_SENT / dcms_sent, dcms_present and DATA_FLAG before the first file
NoTotals == [present |-> 0, sent |-> 0, data_flag |-> FALSE]

\* main is not running
SendIdle ==
    /\ send_variant = "gear"
    /\ download = FALSE
    /\ send_pc = "idle"
    /\ ninputs = 0
    /\ infile = NoInput
    /\ work_dir = <<>>
    /\ ledger = <<>>
    /\ published = FALSE
    /\ totals = NoTotals
    /\ exit_status = -1
    /\ exit_cause = "none"
    /\ processed = <<>>

\* is_dcm is not called
DcmIdle ==
    /\ dcm_keys = <<>>
    /\ dcm_result = "none"

\* no process was started and no file downloaded
SeqIdle ==
    /\ running = 0
    /\ downloads = 0

\* nothing outside add_private_tag and tag_and_transmit.run is running
GearIdle == TlsIdle /\ SendIdle /\ DcmIdle /\ SeqIdle

TagInit ==
    /\ dicomfile \in Objects
    /\ before = dicomfile
    /\ original = dicomfile
    /\ identifier \in Identifiers
    /\ tag_value = DicomSend
    /\ impl \in Impls
    /\ calls = <<>>
    /\ RunIdle
    /\ GearIdle

CallAddPrivateTag ==
    /\ Len(calls) < MaxCalls
    /\ \E r \in {add_private_tag(impl, dicomfile, Group, identifier, tag_value)} :
       /\ dicomfile' = r.ds
       /\ calls' = Append(calls, [outcome |-> r.outcome, slot |-> r.slot,
                                 scanned |-> r.scanned])
    /\ before' = dicomfile
    /\ UNCHANGED <<original, identifier, tag_value, impl>>
    /\ UNCHANGED <<runvars, gearvars>>

TagNext == CallAddPrivateTag

TagSpec == TagInit /\ [][TagNext]_vars

\* ------------------------------------------------------------------------
\* tag_and_transmit.run and transmit_dicom_file under backoff.on_exception
\* ------------------------------------------------------------------------

\* files in the working directory
NumFiles == 2
\* seconds one storescu invocation takes, least and most
MinDuration == 15
MaxDuration == 16
\* backoff.on_exception(..., max_time=60)
MaxTime == 60
\* exponent from which backoff.expo's value, halved, is already beyond
\* max_time, so that the wait is max_time - elapsed whatever the value
ExpoCap == 7

Variants == {"gear", "utils"}

\* objects found in the working directory: untouched, all creator offsets
\* taken by others, and own creator with a full block while all other
\* offsets are taken
RunObjects ==
    {EmptyDataset,
     MakeObj(FullPrefix, {}, 0, -1, 0),
     MakeObj(FullPrefix, {16}, BlockSize, -1, 0)}

\* the SOPClassUID element: a UID string, no element, or a value that is
\* not a string
SopKinds == {"uid", "missing", "not_str"}

\* what storescu can end with: process.returncode, and whether its stderr
\* contains 'Temporary Congestion'
ToolResults == [returncode : {0, 1}, marker : BOOLEAN]

\* every non-zero exit raised as TemporaryFailure, stderr not inspected
transmit_dicom_file_anyFailureTransient(result) ==
    IF result.returncode # 0 THEN "TemporaryFailure" ELSE "True"

\* the body of transmit_dicom_file after process.communicate(): the value
\* returned, or the exception raised
transmit_dicom_file(result) ==
    IF result.returncode # 0
    THEN (IF result.marker THEN "TemporaryFailure" ELSE "False")
    ELSE "True"

RECURSIVE Pow2(_)
Pow2(n) == IF n = 0 THEN 1 ELSE 2 * Pow2(n - 1)

\* backoff.expo: base 2, factor 1; the n-th value, n from 0
expo(n) == Pow2(Min({n, ExpoCap}))

\* backoff.full_jitter: random.uniform(0, value), sampled at its two ends
full_jitter(value) == {0, value}

\* backoff's _next_wait: min(jitter(value), max_time - elapsed)
next_wait(n, el) == {Min({j, MaxTime - el}) : j \in full_jitter(expo(n))}

\* backoff gives up when the elapsed time read before the call has reached
\* max_time
max_time_exceeded(el) == el >= MaxTime

\* the call made without the try statement
run_catches_nothing(exc) == FALSE

\* run: "except TemporaryFailure" around the call
run_catches(exc) == exc = "TemporaryFailure"

Last(seq) == seq[Len(seq)]

SetLast(seq, v) == [seq EXCEPT ![Len(seq)] = v]

RunInit ==
    /\ dicomfile = EmptyDataset
    /\ before = EmptyDataset
    /\ original = EmptyDataset
    /\ identifier = Flywheel
    /\ tag_value = DicomSend
    /\ impl = "gear"
    /\ calls = <<>>
    /\ variant \in Variants
    /\ pc = "loop"
    /\ nfiles \in 0..NumFiles
    /\ idx = 0
    /\ disk = EmptyDataset
    /\ dicoms_present = 0
    /\ dicoms_sent = 0
    /\ dicom_transmitted = "unbound"
    /\ tries = 0
    /\ clock = 0
    /\ elapsed = 0
    /\ wait = 0
    /\ storescu = NoResult
    /\ outcomes = <<>>
    /\ abort_cause = "none"
    /\ GearIdle

Init == RunInit

\* the loop body without "dicoms_sent += 1"
CountSent_notCounted(next_transmitted) ==
    IF next_transmitted = "unbound"
    THEN /\ pc' = "aborted"
         /\ abort_cause' = "UnboundLocalError"
         /\ dicoms_sent' = dicoms_sent
    ELSE /\ pc' = "loop"
         /\ abort_cause' = abort_cause
         /\ dicoms_sent' = dicoms_sent

\* "if dicom_transmitted: dicoms_sent += 1" at the end of the loop body; the
\* name is unbound in utils when no assignment was ever reached
CountSent(next_transmitted) ==
    IF next_transmitted = "unbound"
    THEN /\ pc' = "aborted"
         /\ abort_cause' = "UnboundLocalError"
         /\ dicoms_sent' = dicoms_sent
    ELSE /\ pc' = "loop"
         /\ abort_cause' = abort_cause
         /\ dicoms_sent' = IF next_transmitted = "True" THEN dicoms_sent + 1
                           ELSE dicoms_sent

\* the file not counted
count_present_notCounted(present) == present

\* "dicoms_present += 1" at the head of the loop body
count_present(present) == present + 1

\* the loop takes the next file: it is read and counted as present
NextFile ==
    /\ pc = "loop"
    /\ idx < nfiles
    /\ idx' = idx + 1
    /\ \E obj \in RunObjects :
        /\ disk' = obj
        /\ dicomfile' = obj
    /\ dicoms_present' = count_present(dicoms_present)
    /\ outcomes' = Append(outcomes, [tag |-> "pending", xmit |-> "pending"])
    /\ pc' = "tag"
    /\ tries' = 0
    /\ clock' = 0
    /\ elapsed' = 0
    /\ wait' = 0
    /\ storescu' = NoResult
    /\ UNCHANGED <<tagvars, gearvars, variant, nfiles, dicoms_sent, dicom_transmitted,
                   abort_cause>>

\* add_private_tag, save, and the SOPClassUID check up to the call of
\* transmit_dicom_file; sop is what the object's SOPClassUID element holds
TagFile ==
    /\ pc = "tag"
    /\ \E r \in {gear_add_private_tag(dicomfile, Group, identifier, tag_value)},
          sop \in SopKinds :
        IF r.outcome = "exit"
        THEN \* sys.exit(1): SystemExit leaves run
             /\ pc' = "aborted"
             /\ abort_cause' = "SystemExit"
             /\ outcomes' = SetLast(outcomes, [tag |-> r.outcome, xmit |-> "pending"])
             /\ UNCHANGED <<dicomfile, disk, dicoms_sent, dicom_transmitted>>
        ELSE IF r.outcome = "return_none" /\ variant = "utils"
        THEN \* "dicom_file, private_tag = None" cannot be unpacked
             /\ pc' = "aborted"
             /\ abort_cause' = "TypeError"
             /\ outcomes' = SetLast(outcomes, [tag |-> r.outcome, xmit |-> "pending"])
             /\ UNCHANGED <<dicomfile, disk, dicoms_sent, dicom_transmitted>>
        ELSE /\ dicomfile' = r.ds
             /\ disk' = r.ds
             /\ IF sop = "missing"
                THEN \* "continue"
                     /\ pc' = "loop"
                     /\ outcomes' = SetLast(outcomes, [tag |-> r.outcome, xmit |-> "no_sop"])
                     /\ UNCHANGED <<dicoms_sent, dicom_transmitted, abort_cause>>
                ELSE IF variant = "gear"
                THEN /\ dicom_transmitted' = "False"
                     /\ pc' = "transmit"
                     /\ outcomes' = SetLast(outcomes, [tag |-> r.outcome, xmit |-> "pending"])
                     /\ UNCHANGED <<dicoms_sent, abort_cause>>
                ELSE IF sop = "uid"
                THEN /\ pc' = "transmit"
                     /\ outcomes' = SetLast(outcomes, [tag |-> r.outcome, xmit |-> "pending"])
                     /\ UNCHANGED <<dicoms_sent, dicom_transmitted, abort_cause>>
                ELSE \* utils: isinstance(SOPClassUID, str) is false
                     /\ CountSent(dicom_transmitted)
                     /\ outcomes' = SetLast(outcomes, [tag |-> r.outcome, xmit |-> "not_str"])
                     /\ UNCHANGED dicom_transmitted
    /\ UNCHANGED <<tagvars, gearvars, variant, nfiles, idx, dicoms_present, tries, clock,
                   elapsed, wait, storescu>>

\* one invocation of storescu that makes transmit_dicom_file return; the
\* decorated call is over and its start time with it
Transmitted ==
    /\ pc = "transmit"
    /\ \E result \in ToolResults :
        /\ transmit_dicom_file(result) # "TemporaryFailure"
        /\ storescu' = result
        /\ clock' = 0
        /\ dicom_transmitted' = transmit_dicom_file(result)
        /\ outcomes' = SetLast(outcomes,
               [Last(outcomes) EXCEPT !.xmit = transmit_dicom_file(result)])
        /\ CountSent(transmit_dicom_file(result))
    /\ tries' = tries + 1
    /\ elapsed' = clock
    /\ UNCHANGED <<dicomfile, tagvars, gearvars, variant, nfiles, idx, disk,
                   dicoms_present, wait>>

\* one invocation that raises TemporaryFailure within max_time: backoff
\* draws the wait
Congested ==
    /\ pc = "transmit"
    /\ ~max_time_exceeded(clock)
    /\ \E result \in ToolResults, d \in MinDuration..MaxDuration :
        /\ transmit_dicom_file(result) = "TemporaryFailure"
        /\ storescu' = result
        /\ clock' = clock + d
    /\ \E w \in next_wait(tries, clock) : wait' = w
    /\ tries' = tries + 1
    /\ elapsed' = clock
    /\ pc' = "sleep"
    /\ UNCHANGED <<dicomfile, tagvars, gearvars, variant, nfiles, idx, disk,
                   dicoms_present, dicoms_sent, dicom_transmitted, outcomes,
                   abort_cause>>

\* time.sleep(seconds) between two invocations
Backoff ==
    /\ pc = "sleep"
    /\ clock' = clock + wait
    /\ wait' = 0
    /\ pc' = "transmit"
    /\ UNCHANGED <<dicomfile, tagvars, gearvars, variant, nfiles, idx, disk,
                   dicoms_present, dicoms_sent, dicom_transmitted, tries,
                   elapsed, storescu, outcomes, abort_cause>>

\* one invocation that raises TemporaryFailure after max_time: backoff
\* re-raises, and run handles the exception
GiveUp ==
    /\ pc = "transmit"
    /\ max_time_exceeded(clock)
    /\ \E result \in ToolResults :
        /\ transmit_dicom_file(result) = "TemporaryFailure"
        /\ storescu' = result
        /\ clock' = 0
    /\ tries' = tries + 1
    /\ elapsed' = clock
    /\ outcomes' = SetLast(outcomes,
           [Last(outcomes) EXCEPT !.xmit = "TemporaryFailure"])
    /\ IF run_catches("TemporaryFailure")
       THEN CountSent(dicom_transmitted)
       ELSE /\ pc' = "aborted"
            /\ abort_cause' = "TemporaryFailure"
            /\ dicoms_sent' = dicoms_sent
    /\ UNCHANGED <<dicomfile, tagvars, gearvars, variant, nfiles, idx, disk,
                   dicoms_present, dicom_transmitted, wait>>

\* the loop is over: return dicoms_present, dicoms_sent
Finish ==
    /\ pc = "loop"
    /\ idx = nfiles
    /\ pc' = "done"
    /\ UNCHANGED <<dicomfile, tagvars, gearvars, variant, nfiles, idx, disk,
                   dicoms_present, dicoms_sent, dicom_transmitted, tries,
                   clock, elapsed, wait, storescu, outcomes, abort_cause>>

Next ==
    \/ NextFile
    \/ TagFile
    \/ Transmitted
    \/ Congested
    \/ Backoff
    \/ GiveUp
    \/ Finish

Spec == Init /\ [][Next]_vars

\* the interpreter runs the next step whenever there is one
FairSpec == Spec /\ WF_vars(Next)

\* ------------------------------------------------------------------------
\* Properties of add_private_tag (TagSpec)
\* ------------------------------------------------------------------------

CreatorOffsets == 16..254

\* the creator offsets of the object that hold no element
FreeOffsets(ds) == {e \in CreatorOffsets : ds.creators[e] = Absent}

\* the creator offsets of the object whose value is the identifier, case
\* aside
HoldsIdentifier(ds, e, id) ==
    ds.creators[e] # Absent /\ Lower(ds.creators[e]) = Lower(id)

\* the elements e*256 .. e*256+255 of the object, as positions 0..255
Block(ds, e) == IF e \in DOMAIN ds.blocks THEN ds.blocks[e] ELSE EmptyBlock

\* positions of a block that hold no element
FreePositions(blk) == {i \in 0..255 : blk[i] = Absent}

\* positions of a block whose element starts with the tag value, case aside
TaggedPositions(blk, tag) ==
    {i \in 0..255 : blk[i] # Absent /\ StartsWith(Lower(blk[i]), Lower(tag))}

\* the elements of the object at which it differs from another
ChangedCreators(a, b) == {e \in CreatorOffsets : a.creators[e] # b.creators[e]}

\* C1: two calls in a row with the same arguments return the same slot (or
\* fail the same way), and the second call leaves the object as the first
\* call left it.
C1_Idempotent ==
    Len(calls) >= 2 =>
        /\ calls[Len(calls)].slot = calls[Len(calls) - 1].slot
        /\ calls[Len(calls)].outcome = calls[Len(calls) - 1].outcome
        /\ dicomfile = before

\* C1: a first call that wrote a creator and a tag, followed by a second.
C1_Witness ==
    /\ Len(calls) = 2
    /\ calls[1].outcome = "return"
    /\ ChangedCreators(original, dicomfile) # {}
    /\ original.creators[16] # Absent

\* C2: when every creator offset 0x10..0xFE holds an element that is not the
\* identifier, the call ends after one scan of the 239 offsets with the
\* exhaustion error (TagError in tagger.py, exit in the gear versions) and
\* the object is unchanged.
C2_Exhaustion ==
    (/\ Len(calls) >= 1
     /\ \A e \in CreatorOffsets :
            before.creators[e] # Absent /\ ~HoldsIdentifier(before, e, identifier))
    => /\ Last(calls).outcome = (IF impl = "tagger" THEN "TagError" ELSE "exit")
       /\ Last(calls).slot = None
       /\ Last(calls).scanned = 239
       /\ dicomfile = before

\* C2: a call of the gear version on an object whose creator range is full
\* of other owners' creators.
C2_Witness ==
    /\ Len(calls) = 1
    /\ impl = "gear"
    /\ \A e \in CreatorOffsets : original.creators[e] = NotFlywheel
    /\ Last(calls).outcome = "exit"

\* C4: when no offset below the lowest free offset e holds the identifier,
\* the call writes the identifier at e and the tag value at e*0x100, changes
\* nothing else, and returns (group, e*0x100); on an empty private group
\* that is creator 0x0010 and tag 0x1000.
C4_FirstFree ==
    (/\ Len(calls) >= 1
     /\ FreeOffsets(before) # {}
     /\ \A o \in 16..(Min(FreeOffsets(before)) - 1) :
            ~HoldsIdentifier(before, o, identifier))
    => LET e == Min(FreeOffsets(before)) IN
       /\ Last(calls).outcome = "return"
       /\ Last(calls).slot = <<33, e * 256>>
       /\ dicomfile.creators = [before.creators EXCEPT ![e] = identifier]
       /\ DOMAIN dicomfile.blocks = (DOMAIN before.blocks) \cup {e}
       /\ \A k \in DOMAIN dicomfile.blocks :
              dicomfile.blocks[k] =
                  IF k = e THEN [Block(before, e) EXCEPT ![0] = tag_value]
                  ELSE before.blocks[k]
       /\ (before = EmptyDataset =>
              /\ Last(calls).slot = <<33, 4096>>
              /\ dicomfile.creators[16] = identifier
              /\ dicomfile.blocks[16][0] = tag_value)

\* C4: a call that had to pass another owner's creator at 0x0010 and
\* allocated the creator at 0x0011 and the tag at 0x1100.
C4_Witness ==
    /\ Len(calls) = 1
    /\ original.creators[16] = NotFlywheel
    /\ original.creators[17] = Absent
    /\ Last(calls).slot = <<33, 4352>>
    /\ dicomfile.creators[17] = identifier

\* C5 as stated: whenever some creator offset e holds the identifier and its
\* block has no element starting with the tag value, the call writes the
\* tag value into the lowest free element of that block, returns it, and
\* creates no creator element.
C5_AsStated ==
    Len(calls) >= 1 =>
        \A e \in CreatorOffsets :
            (/\ HoldsIdentifier(before, e, identifier)
             /\ TaggedPositions(Block(before, e), tag_value) = {})
            => /\ FreePositions(Block(before, e)) # {}
               /\ LET i == Min(FreePositions(Block(before, e))) IN
                  /\ Last(calls).outcome = "return"
                  /\ Last(calls).slot = <<33, e * 256 + i>>
                  /\ dicomfile.creators = before.creators
                  /\ e \in DOMAIN dicomfile.blocks
                  /\ dicomfile.blocks[e] = [Block(before, e) EXCEPT ![i] = tag_value]

\* C6 as stated: whenever the block of a creator holding the identifier has,
\* at any position, an element starting with the tag value, the call
\* changes nothing and returns the slot of such an element.
C6_AsStated ==
    Len(calls) >= 1 =>
        \A e \in CreatorOffsets :
            (/\ HoldsIdentifier(before, e, identifier)
             /\ TaggedPositions(Block(before, e), tag_value) # {})
            => /\ dicomfile = before
               /\ Last(calls).outcome = "return"
               /\ \E i \in TaggedPositions(Block(before, e), tag_value) :
                      Last(calls).slot = <<33, e * 256 + i>>

\* C7 as stated: when a creator holding the identifier exists and every
\* element of its block is taken by a value that does not start with the
\* tag value, tagger.add_private_tag raises TagError.
C7_AsStated ==
    (/\ Len(calls) >= 1
     /\ impl = "tagger"
     /\ \E e \in CreatorOffsets :
            /\ HoldsIdentifier(before, e, identifier)
            /\ FreePositions(Block(before, e)) = {}
            /\ TaggedPositions(Block(before, e), tag_value) = {})
    => Last(calls).outcome = "TagError"

\* ------------------------------------------------------------------------
\* Properties of tag_and_transmit.run (Spec, FairSpec)
\* ------------------------------------------------------------------------

\* the file the loop is at has had at least one storescu invocation
Invoked == tries >= 1

\* the last invocation ended with exit code 0
LastSucceeded == Invoked /\ storescu.returncode = 0

\* the last invocation ended non-zero with the congestion marker in stderr
LastCongested == Invoked /\ storescu.returncode # 0 /\ storescu.marker

\* the last invocation ended non-zero without the congestion marker
LastPermanent == Invoked /\ storescu.returncode # 0 /\ ~storescu.marker

\* C3 as stated: when add_private_tag cannot allocate a slot for a file and
\* files remain after it, the run is not aborted (the remaining files are
\* still tagged and transmitted).
C3_AsStated ==
    (/\ outcomes # <<>>
     /\ Last(outcomes).tag = "exit"
     /\ idx < nfiles)
    => pc # "aborted"

\* C8 as stated: exit code 0 gives transmitted=true and no further
\* invocation; only a congested invocation is followed by another one; a
\* permanent failure gives transmitted=false and the tool was invoked
\* exactly once for that file.
C8_AsStated ==
    /\ [](/\ LastSucceeded =>
                Last(outcomes).xmit = "True" /\ pc \in {"loop", "done"}
          /\ LastPermanent =>
                /\ Last(outcomes).xmit = "False"
                /\ pc \in {"loop", "done"}
                /\ tries = 1)
    /\ [][tries' > tries => (tries = 0 \/ LastCongested)]_vars

\* C8 amended: exit code 0 gives transmitted=true and no further invocation;
\* only a congested invocation is followed by another one; a permanent
\* failure gives transmitted=false and no further invocation for that file
\* (it may have been preceded by congested invocations).
C8_Classification ==
    /\ [](/\ LastSucceeded =>
                Last(outcomes).xmit = "True" /\ pc \in {"loop", "done"}
          /\ LastPermanent =>
                Last(outcomes).xmit = "False" /\ pc \in {"loop", "done"})
    /\ [][tries' > tries => (tries = 0 \/ LastCongested)]_vars

\* C8: a permanent failure on the second invocation, after a congested
\* first one.
C8_Witness ==
    /\ pc = "loop"
    /\ tries = 2
    /\ LastPermanent
    /\ Last(outcomes).xmit = "False"

\* C9: an invocation that exits 0, after any number of congested ones, makes
\* the file transmitted, raises dicoms_sent by exactly one and ends the
\* retries; the count then stays until the next file is taken.
C9_RetryThenSuccess ==
    [][/\ (tries' = tries + 1 /\ storescu'.returncode = 0) =>
            /\ Last(outcomes').xmit = "True"
            /\ dicom_transmitted' = "True"
            /\ dicoms_sent' = dicoms_sent + 1
            /\ pc' = "loop"
       /\ pc = "loop" => dicoms_sent' = dicoms_sent]_vars

\* C9: three congested invocations, then a success that started within the
\* budget, counted once.
C9_Witness ==
    /\ pc = "loop"
    /\ idx = 1
    /\ tries = 4
    /\ LastSucceeded
    /\ elapsed <= MaxTime
    /\ dicom_transmitted = "True"
    /\ dicoms_sent = 1

\* C10: in the gear version, a file whose every invocation is congested is
\* retried only while the elapsed time is below the budget, is given up once
\* the budget is used up, ends not transmitted and not counted, with no
\* exception leaving run and the loop going on; and every run ends.
C10_BudgetExhaustion ==
    /\ [](/\ pc = "sleep" => LastCongested /\ elapsed < MaxTime
          /\ (outcomes # <<>> /\ Last(outcomes).xmit = "TemporaryFailure") =>
                /\ LastCongested
                /\ elapsed >= MaxTime
                /\ (variant = "gear" =>
                        /\ dicom_transmitted = "False"
                        /\ pc \in {"loop", "done"}
                        /\ abort_cause = "none"))
    /\ [][(variant = "gear" /\ LastCongested' /\ pc' # "sleep" /\ tries' > tries)
            => dicoms_sent' = dicoms_sent]_vars
    /\ <>(pc \in {"done", "aborted"})

\* C10: the first file used up its budget and the gear's run went on to
\* process the second file and returned.
C10_Witness ==
    /\ variant = "gear"
    /\ pc = "done"
    /\ idx = 2
    /\ outcomes[1].xmit = "TemporaryFailure"
    /\ outcomes[2].xmit = "True"

\* ------------------------------------------------------------------------
\* Transport security options: parser.generate_gear_args
\* ------------------------------------------------------------------------

MaxCommands == 2

\* TLSType.__members__
TLSTypeMembers == {"disabled", "enabled", "anonymous"}

\* what a configuration key may hold
ConfigValues == TLSTypeMembers \cup {"other"}

\* the configuration keys the 'enabled' option is read through
ConfigKeys == {"tls_enabled", "enabled"}

\* gear_context.config, restricted to ConfigKeys
Configs == UNION {[S -> ConfigValues] : S \in SUBSET ConfigKeys}

\* an input path: no input ("None"), a path with nothing there, a directory,
\* a regular file
InputPaths == {"None", "nowhere", "dir", "file"}

\* p and (p.exists() and p.is_file())
PathIsFile(p) == p # "None" /\ p = "file"

\* TLSOpt.validate: TRUE when it raises ValueError
validate(opts) ==
    /\ opts.enabled = "enabled"
    /\ ~PathIsFile(opts.key)
    /\ PathIsFile(opts.cert)

\* TLSOpt.command with the default use_pem, security_profile, ciphers, seed
\* and require_peer_cert
command(opts) ==
    IF opts.enabled = "disabled" THEN <<>>
    ELSE IF opts.enabled = "enabled"
    THEN <<"+tls", opts.key, opts.cert, "-pem", "+px", "-rc">>
    ELSE <<"+tla", "-pem", "+px", "-rc">>

\* parse_tls_opts: the loop reads config[key] when "tls_" + key is in the
\* configuration, the inputs set key and cert, then validate is called
parse_tls_opts(config, key, cert) ==
    IF "tls_enabled" \in DOMAIN config /\ "enabled" \notin DOMAIN config
    THEN [kind |-> "KeyError", opts |-> DefaultOpts]
    ELSE Only({IF validate(opts)
               THEN [kind |-> "ValueError", opts |-> opts]
               ELSE [kind |-> "ok", opts |-> opts] :
               opts \in {[enabled |-> IF "tls_enabled" \in DOMAIN config
                                     THEN config["enabled"]
                                     ELSE DefaultOpts.enabled,
                          key |-> IF key # "None" THEN key ELSE DefaultOpts.key,
                          cert |-> IF cert # "None" THEN cert
                                   ELSE DefaultOpts.cert]}})

TlsInit ==
    /\ dicomfile = EmptyDataset
    /\ before = EmptyDataset
    /\ original = EmptyDataset
    /\ identifier = Flywheel
    /\ tag_value = DicomSend
    /\ impl = "gear"
    /\ calls = <<>>
    /\ RunIdle
    /\ tls_config \in Configs
    /\ tls_key \in InputPaths
    /\ tls_cert \in InputPaths
    /\ tls_parsed = NotParsed
    /\ gear_pc = "start"
    /\ tool_commands = <<>>
    /\ SendIdle
    /\ DcmIdle
    /\ SeqIdle

\* generate_gear_args: ValueError from parse_tls_opts becomes sys.exit(1),
\* any other exception leaves the function
GenerateGearArgs ==
    /\ gear_pc = "start"
    /\ \E r \in {parse_tls_opts(tls_config, tls_key, tls_cert)} :
        /\ tls_parsed' = r
        /\ gear_pc' = IF r.kind = "ok" THEN "args"
                      ELSE IF r.kind = "ValueError" THEN "exit"
                      ELSE "raised"
    /\ UNCHANGED <<dicomfile, tagvars, runvars, sendvars, dcmvars, seqvars,
                   tls_config,
                   tls_key,                    tls_cert, tool_commands>>

\* dicom_send.run with the tls options generate_gear_args returned:
\* transmit_dicom_file extends the storescu command with tls.command() and
\* starts the process
TransmitWithTls ==
    /\ gear_pc = "args"
    /\ Len(tool_commands) < MaxCommands
    /\ tool_commands' = Append(tool_commands, command(tls_parsed.opts))
    /\ UNCHANGED <<dicomfile, tagvars, runvars, sendvars, dcmvars, seqvars,
                   tls_config,
                   tls_key,                    tls_cert, tls_parsed, gear_pc>>

TlsNext == GenerateGearArgs \/ TransmitWithTls

TlsSpec == TlsInit /\ [][TlsNext]_vars

\* ------------------------------------------------------------------------
\* Properties of the transport security options (TlsSpec)
\* ------------------------------------------------------------------------

\* validate was called on tls_parsed.opts
Validated == tls_parsed.kind \in {"ok", "ValueError"}

\* mode 'enabled' with the key file or the certificate file missing
InvalidEnabled(opts) ==
    /\ opts.enabled = "enabled"
    /\ ~(PathIsFile(opts.key) /\ PathIsFile(opts.cert))

\* C11 as stated: with mode 'enabled' validate raises ValueError exactly
\* when the key file or the certificate file is missing; with mode
\* 'disabled' or 'anonymous' it never raises.
C11_AsStated ==
    Validated =>
        /\ tls_parsed.opts.enabled = "enabled" =>
            (tls_parsed.kind = "ValueError" <=> InvalidEnabled(tls_parsed.opts))
        /\ tls_parsed.opts.enabled \in {"disabled", "anonymous"} =>
            tls_parsed.kind = "ok"

MaxCount == 3
MaxRows == 2

\* initialize_report: the header
header ==
    <<"Acquisition_ID", "FW_Path", "Filename", "Images_In_Series",
      "Images_Sent", "Status">>

\* the first comparison testing >= for >
status_of_presentAtLeastSent(DICOM_PRESENT, DICOM_SENT) ==
    IF DICOM_PRESENT >= DICOM_SENT THEN "Incomplete"
    ELSE IF DICOM_PRESENT < DICOM_SENT THEN "Error"
    ELSE "Complete"

\* generate_list: the if / elif / else that sets status
status_of(DICOM_PRESENT, DICOM_SENT) ==
    IF DICOM_PRESENT > DICOM_SENT THEN "Incomplete"
    ELSE IF DICOM_PRESENT < DICOM_SENT THEN "Error"
    ELSE "Complete"

\* make_flywheel_path: labels looked up in the store, then the file name
make_flywheel_path(acq_id, file_name) == <<"path", acq_id, file_name>>

\* generate_list: the row for one export
generate_list(acq_id, file_name, DICOM_PRESENT, DICOM_SENT) ==
    <<acq_id, make_flywheel_path(acq_id, file_name), file_name, DICOM_PRESENT,
      DICOM_SENT, status_of(DICOM_PRESENT, DICOM_SENT)>>

\* append_list_as_row: open(file_name, "a+") and writerow
append_list_as_row(file, list_of_elem) == Append(file, list_of_elem)

\* initialize_report
initialize_report(file) == append_list_as_row(file, header)

\* the header written on every call
generate_report_alwaysInitializes(file, acq_id, file_name, DICOMS_PRESENT, DICOMS_SENT) ==
    append_list_as_row(
        initialize_report(file),
        generate_list(acq_id, file_name, DICOMS_PRESENT, DICOMS_SENT))

\* generate_report: the file after the call; a file that does not exist is
\* initialized first
generate_report(file, acq_id, file_name, DICOMS_PRESENT, DICOMS_SENT) ==
    append_list_as_row(
        IF file = <<>> THEN initialize_report(file) ELSE file,
        generate_list(acq_id, file_name, DICOMS_PRESENT, DICOMS_SENT))

\* what is recorded of a call
Call(file_name, present, sent) ==
    [name |-> file_name, present |-> present, sent |-> sent]

ReportInit ==
    /\ dicomfile = EmptyDataset
    /\ before = EmptyDataset
    /\ original = EmptyDataset
    /\ identifier = Flywheel
    /\ tag_value = DicomSend
    /\ impl = "gear"
    /\ calls = <<>>
    /\ RunIdle
    /\ SeqIdle
    /\ TlsIdle
    /\ DcmIdle
    /\ send_variant = "utils"
    /\ download = FALSE
    /\ send_pc = "report"
    /\ ninputs = 0
    /\ infile = NoInput
    /\ work_dir = <<>>
    /\ ledger = <<>>
    /\ published = FALSE
    /\ totals = NoTotals
    /\ exit_status = -1
    /\ exit_cause = "none"
    /\ processed = <<>>

\* one call of generate_report, with any two counts
CallGenerateReport ==
    /\ send_pc = "report"
    /\ Len(processed) < MaxRows
    /\ \E present \in 0..MaxCount, sent \in 0..MaxCount :
        /\ ledger' = generate_report(ledger, "acq", Len(processed) + 1,
                                     present, sent)
        /\ processed' = Append(processed,
                               Call(Len(processed) + 1, present, sent))
    /\ UNCHANGED <<dicomfile, tagvars, runvars, tlsvars, dcmvars, seqvars,
                   send_variant,
                   download, send_pc, ninputs, infile, work_dir, published,
                   totals, exit_status, exit_cause>>

ReportNext == CallGenerateReport

ReportSpec == ReportInit /\ [][ReportNext]_vars

\* ------------------------------------------------------------------------
\* Properties of the ledger rows (ReportSpec)
\* ------------------------------------------------------------------------

Statuses == {"Incomplete", "Error", "Complete"}

\* C13: every row's status is one of the three statuses and is fixed by the
\* row's two counts alone: Incomplete when present > sent, Error when
\* present < sent, Complete when they are equal, for every pair of counts.
C13_StatusTotal ==
    \A k \in 1..Len(processed) :
        LET row == ledger[k + 1]
            p == processed[k].present
            t == processed[k].sent
        IN  /\ row[4] = p /\ row[5] = t
            /\ row[6] \in Statuses
            /\ (row[6] = "Incomplete") <=> (p > t)
            /\ (row[6] = "Error") <=> (p < t)
            /\ (row[6] = "Complete") <=> (p = t)

\* C13: a Complete row (3, 3) has been written and after it the anomalous
\* Error row (present 2 < sent 3).
C13_Witness ==
    /\ Len(ledger) = 3
    /\ ledger[2][4] = 3 /\ ledger[2][5] = 3 /\ ledger[2][6] = "Complete"
    /\ ledger[3][4] = 2 /\ ledger[3][5] = 3 /\ ledger[3][6] = "Error"

\* ------------------------------------------------------------------------
\* main, download_and_send and dicom_send.run
\* ------------------------------------------------------------------------

MaxMembers == 4
MaxInputs == 2

\* a member of an archive: its uncompressed size, and whether it is a valid
\* DICOM object
EmptyMember == [size |-> 0, dicom |-> FALSE]
OtherMember == [size |-> 1, dicom |-> FALSE]
DicomMember == [size |-> 2, dicom |-> TRUE]

\* an archive's members: nd DICOM files, no other files, ne empty files
MakeMembers(nd, no, ne) ==
    [i \in 1..(nd + no + ne) |->
        IF i <= nd THEN DicomMember
        ELSE IF i <= nd + no THEN OtherMember
        ELSE EmptyMember]

Archives ==
    {MakeMembers(nd, no, ne) :
        nd \in 0..MaxMembers, no \in 0..MaxMembers, ne \in 0..MaxMembers}
    \cap UNION {[1..n -> {EmptyMember, OtherMember, DicomMember}] :
                    n \in 0..MaxMembers}

\* the input files: a zip or tar archive, a single file, or a file that
\* is_zipfile takes for a zip and ZipFile cannot open
Inputs ==
    {[kind |-> k, members |-> m] : k \in {"zip", "tar"}, m \in Archives}
    \cup {[kind |-> "single", members |-> <<m>>] :
            m \in {DicomMember, OtherMember}}
    \cup {[kind |-> "corrupt", members |-> <<>>]}

\* sum([zipinfo.file_size for zipinfo in archive_obj.filelist])
RECURSIVE size_contents(_)
size_contents(members) ==
    IF members = <<>> THEN 0
    ELSE Head(members).size + size_contents(Tail(members))

\* the archive taken for empty when it has no member
exit_if_archive_empty_noMembers(members) == Len(members) = 0

\* exit_if_archive_empty: TRUE when it calls sys.exit(1)
exit_if_archive_empty(members) == size_contents(members) = 0

\* prepare_work_dir_contents: the exit it ends with, if any, and the
\* working directory after it.  A single file is copied by utils only, when
\* dcmread does not raise InvalidDicomError.
prepare_work_dir_contents(v, input, dir) ==
    IF input.kind = "corrupt"
    THEN [exit |-> "bad_archive", dir |-> dir]
    ELSE IF input.kind \in {"zip", "tar"}
    THEN (IF exit_if_archive_empty(input.members)
          THEN [exit |-> "empty_archive", dir |-> dir]
          ELSE [exit |-> "none", dir |-> dir \o input.members])
    ELSE IF v = "gear"
    THEN [exit |-> "none", dir |-> dir]
    ELSE IF input.members[1].dicom
    THEN [exit |-> "none", dir |-> dir \o input.members]
    ELSE [exit |-> "invalid_dicom", dir |-> dir]

\* the DICOM objects tag_and_transmit.run finds in the working directory
dcms(dir) == {i \in 1..Len(dir) : dir[i].dicom}

\* tag_and_transmit.run on the working directory: it returns
\* (dicoms_present, dicoms_sent), or an exception leaves it while a file is
\* processed
tag_and_transmit_run(dir) ==
    {[returned |-> TRUE, present |-> Cardinality(dcms(dir)), sent |-> k] :
        k \in 0..Cardinality(dcms(dir))}
    \cup (IF dcms(dir) = {} THEN {}
          ELSE {[returned |-> FALSE, present |-> 0, sent |-> 0]})

\* dicom_send.run: prepare_work_dir_contents, tag_and_transmit.run, then
\* generate_report; the record tells how the call ended and what it left
dicom_send_run(v, input, dir, file, name) ==
    LET prep == prepare_work_dir_contents(v, input, dir) IN
    IF prep.exit # "none"
    THEN {[exit |-> prep.exit, dir |-> prep.dir, file |-> file,
           present |-> 0, sent |-> 0]}
    ELSE {IF r.returned
          THEN [exit |-> "none", dir |-> prep.dir,
                file |-> generate_report(file, "acq", name, r.present, r.sent),
                present |-> r.present, sent |-> r.sent]
          ELSE [exit |-> "tag_and_transmit", dir |-> prep.dir, file |-> file,
                present |-> 0, sent |-> 0] :
          r \in tag_and_transmit_run(prep.dir)}

SendVariants == {"gear", "utils"}

SendInit ==
    /\ dicomfile = EmptyDataset
    /\ before = EmptyDataset
    /\ original = EmptyDataset
    /\ identifier = Flywheel
    /\ tag_value = DicomSend
    /\ impl = "gear"
    /\ calls = <<>>
    /\ RunIdle
    /\ SeqIdle
    /\ TlsIdle
    /\ DcmIdle
    /\ send_variant \in SendVariants
    /\ download \in BOOLEAN
    /\ send_pc = IF download THEN "download" ELSE "run"
    /\ ninputs \in IF download THEN 0..MaxInputs ELSE {1}
    /\ infile = NoInput
    /\ work_dir = <<>>
    /\ ledger = <<>>
    /\ published = FALSE
    /\ totals = NoTotals
    /\ exit_status = -1
    /\ exit_cause = "none"
    /\ processed = <<>>

\* the effect of one dicom_send.run call on input that ended as r says;
\* infile is the argument of the call that runs or that ended the run
AfterRun(input, r, next_pc, next_totals, next_dir) ==
    IF r.exit # "none"
    THEN /\ infile' = input
         /\ send_pc' = "exited"
         /\ exit_status' = 1
         /\ exit_cause' = r.exit
         /\ work_dir' = r.dir
         /\ UNCHANGED <<ledger, totals, processed>>
    ELSE /\ infile' = NoInput
         /\ send_pc' = next_pc
         /\ ledger' = r.file
         /\ processed' = Append(processed,
                                Call(Len(processed) + 1, r.present, r.sent))
         /\ totals' = next_totals
         /\ work_dir' = next_dir
         /\ UNCHANGED <<exit_status, exit_cause>>

\* main with download False: dicom_send.run on the input file
MainRunOn(input) ==
    /\ send_pc = "run"
    /\ \E r \in dicom_send_run(send_variant, input, work_dir, ledger,
                               Len(processed) + 1) :
        AfterRun(input, r, "returned",
                 [present |-> r.present, sent |-> r.sent,
                  data_flag |-> FALSE],
                 r.dir)
    /\ UNCHANGED <<dicomfile, tagvars, runvars, tlsvars, dcmvars, seqvars,
                   send_variant,
                   download, ninputs, published>>

MainRun == \E input \in Inputs : MainRunOn(input)

\* the total replaced by the count of the last file
add_to_total_assigns(total, count) == count

\* "dcms_sent += sent", "dcms_present += present", "DICOMS_SENT += ..."
add_to_total(total, count) == total + count

\* the working directory left as the call left it
rmtree_mkdir_notWiped(dir) == dir

\* shutil.rmtree(work_dir); os.mkdir(work_dir)
rmtree_mkdir(dir) == <<>>

\* download_and_send: one file of type dicom is downloaded, dicom_send.run
\* is called on it, the totals are updated and the working directory is
\* removed and made again
DownloadAndSendFileOn(input) ==
    /\ send_pc = "download"
    /\ Len(processed) < ninputs
    /\ \E r \in dicom_send_run(send_variant, input, work_dir, ledger,
                               Len(processed) + 1) :
        AfterRun(input, r, "download",
                 [present |-> IF send_variant = "gear"
                              THEN add_to_total(totals.present, r.present)
                              ELSE totals.present,
                  sent |-> add_to_total(totals.sent, r.sent),
                  data_flag |-> TRUE],
                 rmtree_mkdir(r.dir))
    /\ UNCHANGED <<dicomfile, tagvars, runvars, tlsvars, dcmvars, seqvars,
                   send_variant,
                   download, ninputs, published>>

DownloadAndSendFile == \E input \in Inputs : DownloadAndSendFileOn(input)

\* download_and_send after its loop: sys.exit(1) when DATA_FLAG is False
\* (utils) or dcms_present is zero (gear), else it returns
DownloadAndSendEnd ==
    /\ send_pc = "download"
    /\ Len(processed) = ninputs
    /\ IF send_variant = "utils" /\ ~totals.data_flag
       THEN /\ send_pc' = "exited"
            /\ exit_status' = 1
            /\ exit_cause' = "no_data"
       ELSE IF send_variant = "gear" /\ totals.present = 0
       THEN /\ send_pc' = "exited"
            /\ exit_status' = 1
            /\ exit_cause' = "no_dicoms_present"
       ELSE /\ send_pc' = "returned"
            /\ UNCHANGED <<exit_status, exit_cause>>
    /\ UNCHANGED <<dicomfile, tagvars, runvars, tlsvars, dcmvars, seqvars,
                   send_variant,
                   download, ninputs, infile, work_dir, ledger, published,
                   totals, processed>>

\* run.py main: upload_report renames the report file and uploads it;
\* os.rename raises when there is no report file
UploadReport ==
    /\ send_pc = "returned"
    /\ send_variant = "utils"
    /\ IF ledger = <<>>
       THEN /\ send_pc' = "exited"
            /\ exit_status' = 1
            /\ exit_cause' = "FileNotFoundError"
            /\ UNCHANGED published
       ELSE /\ send_pc' = "uploaded"
            /\ published' = TRUE
            /\ UNCHANGED <<exit_status, exit_cause>>
    /\ UNCHANGED <<dicomfile, tagvars, runvars, tlsvars, dcmvars, seqvars,
                   send_variant,
                   download, ninputs, infile, work_dir, ledger, totals,
                   processed>>

\* run.py main: "if DICOMS_SENT == 0: os.sys.exit(1)" else exit_status = 0
main_exit_status(DICOMS_SENT) == IF DICOMS_SENT = 0 THEN 1 ELSE 0

\* run.py main after upload_report
MainExit ==
    /\ send_pc = "uploaded"
    /\ send_pc' = "exited"
    /\ exit_status' = main_exit_status(totals.sent)
    /\ exit_cause' = IF totals.sent = 0 THEN "no_dicoms_sent" ELSE "return"
    /\ UNCHANGED <<dicomfile, tagvars, runvars, tlsvars, dcmvars, seqvars,
                   send_variant,
                   download, ninputs, infile, work_dir, ledger, published,
                   totals, processed>>

SendNext ==
    \/ MainRun
    \/ DownloadAndSendFile
    \/ DownloadAndSendEnd
    \/ UploadReport
    \/ MainExit

SendSpec == SendInit /\ [][SendNext]_vars

\* ------------------------------------------------------------------------
\* Properties of a whole run (SendSpec)
\* ------------------------------------------------------------------------

\* the rows of the calls of dicom_send.run that returned, in their order
RowsOf(calls_made) ==
    [k \in 1..Len(calls_made) |->
        generate_list("acq", calls_made[k].name, calls_made[k].present,
                      calls_made[k].sent)]

IsPrefix(s, t) == Len(s) <= Len(t) /\ \A k \in 1..Len(s) : t[k] = s[k]

\* C14: the ledger is the 6-column header once, as its first line, then one
\* row per input file processed by dicom_send.run, in processing order; and
\* every step leaves the lines already written where and as they were.
C14_HeaderOnceRowPerInput ==
    /\ [](/\ Len(header) = 6
          /\ ledger = IF processed = <<>> THEN <<>>
                      ELSE <<header>> \o RowsOf(processed))
    /\ [][IsPrefix(ledger, ledger')]_vars

\* C14: two input files have been processed after one another and the ledger
\* has three lines.
C14_Witness ==
    /\ Len(processed) = 2
    /\ Len(ledger) = 3
    /\ ledger[1] = header
    /\ ledger[3][3] = 2

\* C15: when dicom_send.run has returned for a working directory that holds
\* N valid DICOM files and M other files, present is N, the ledger has
\* exactly N rows and the sent count is one of 0..N.
C15_AsStated ==
    (send_pc = "returned" /\ ~download /\ dcms(work_dir) # {})
        => LET N == Cardinality(dcms(work_dir)) IN
           /\ processed[1].present = N
           /\ Len(ledger) - 1 = N
           /\ processed[1].sent \in 0..N

ZeroSized(input) ==
    /\ input.kind \in {"zip", "tar"}
    /\ size_contents(input.members) = 0

\* C16: a dicom_send.run call on a zip or tar whose member sizes sum to zero
\* ends the run with exit status 1 before extraction: the working directory
\* is unchanged and nothing is tagged, transmitted or appended to the ledger
\* for that input.
C16_EmptyArchiveRejected ==
    [][\A input \in {i \in Inputs : ZeroSized(i)} :
        (MainRunOn(input) \/ DownloadAndSendFileOn(input))
            => /\ send_pc' = "exited"
               /\ exit_status' = 1
               /\ exit_cause' = "empty_archive"
               /\ work_dir' = work_dir
               /\ ledger' = ledger
               /\ processed' = processed]_vars

\* C16: after one input was processed, a zip with members that are all of
\* size zero has ended the run.
C16_Witness ==
    /\ infile.kind = "zip"
    /\ Len(infile.members) >= 1
    /\ ZeroSized(infile)
    /\ exit_cause = "empty_archive"
    /\ exit_status = 1
    /\ Len(processed) = 1
    /\ Len(ledger) = 2

RECURSIVE SumPresent(_)
SumPresent(calls_made) ==
    IF calls_made = <<>> THEN 0
    ELSE Head(calls_made).present + SumPresent(Tail(calls_made))

RECURSIVE SumSent(_)
SumSent(calls_made) ==
    IF calls_made = <<>> THEN 0
    ELSE Head(calls_made).sent + SumSent(Tail(calls_made))

\* the exits that are decided on the counts of the run
CountCauses == {"no_data", "no_dicoms_present", "no_dicoms_sent"}

\* C18: when the run has ended with a failure status because of its counts,
\* every input file has been attempted and upload_report has published the
\* ledger.
C18_AsStated ==
    (exit_status = 1 /\ exit_cause \in CountCauses)
        => /\ Len(processed) = ninputs
           /\ published

\* C19: main ends with a non-zero status exactly when the total sent is zero
\* or less than the total present, and with status 0 only when sent equals
\* present and is greater than zero.
C19_AsStated ==
    (send_pc = "exited" /\ exit_cause \in {"no_dicoms_sent", "return"})
        => /\ (exit_status # 0)
                <=> (\/ SumSent(processed) = 0
                     \/ SumSent(processed) < SumPresent(processed))
           /\ (exit_status = 0)
                => (/\ SumSent(processed) = SumPresent(processed)
                    /\ SumSent(processed) > 0)

\* ------------------------------------------------------------------------
\* is_dcm
\* ------------------------------------------------------------------------

MaxKeys == 4

\* what a keyword of dcm.dir() resolves to: a tag of a group above 2, a tag
\* of a group up to 2, or no tag
KeyKinds == {"public", "meta", "unresolved"}

KeyLists == UNION {[1..n -> KeyKinds] : n \in 0..MaxKeys}

\* the names tag_and_transmit.py binds for is_dcm: its pydicom imports
ModuleNames == {"keyword_for_tag", "Tag", "UID"}

\* is_dcm: the loop over keys from position k on with num_pub_tags counted
\* so far, then the test num_pub_tags > 1.  The call of a name the module
\* does not bind raises NameError, which the except clause does not catch;
\* the AttributeError or TypeError of a keyword without a tag is skipped.
RECURSIVE is_dcm_from(_, _, _)
is_dcm_from(keys, k, num_pub_tags) ==
    IF k > Len(keys)
    THEN (IF num_pub_tags > 1 THEN "True" ELSE "False")
    ELSE IF "tag_for_keyword" \notin ModuleNames
    THEN "NameError"
    ELSE IF keys[k] = "public"
    THEN is_dcm_from(keys, k + 1, num_pub_tags + 1)
    ELSE is_dcm_from(keys, k + 1, num_pub_tags)

is_dcm(keys) == is_dcm_from(keys, 1, 0)

DcmInit ==
    /\ dicomfile = EmptyDataset
    /\ before = EmptyDataset
    /\ original = EmptyDataset
    /\ identifier = Flywheel
    /\ tag_value = DicomSend
    /\ impl = "gear"
    /\ calls = <<>>
    /\ RunIdle
    /\ SeqIdle
    /\ TlsIdle
    /\ SendIdle
    /\ dcm_keys \in KeyLists
    /\ dcm_result = "none"

\* DICOMCollection.from_dir calls is_dcm on a parsed object
CallIsDcm ==
    /\ dcm_result = "none"
    /\ dcm_result' = is_dcm(dcm_keys)
    /\ UNCHANGED <<dicomfile, tagvars, runvars, tlsvars, sendvars, seqvars,
                   dcm_keys>>

DcmNext == CallIsDcm

DcmSpec == DcmInit /\ [][DcmNext]_vars

\* how many of the keys resolve to a tag of a group above 2
RECURSIVE NumPublic(_)
NumPublic(keys) ==
    IF keys = <<>> THEN 0
    ELSE (IF Head(keys) = "public" THEN 1 ELSE 0) + NumPublic(Tail(keys))

\* C17: is_dcm accepts an object when at least two of its keywords resolve to
\* a tag of a group above 2, and rejects it, returning False, when none or
\* one does.
C17_AsStated ==
    dcm_result # "none"
        => /\ dcm_result \in {"True", "False"}
           /\ (dcm_result = "True") <=> (NumPublic(dcm_keys) >= 2)

\* ------------------------------------------------------------------------
\* Permanent failures of one file (Spec)
\* ------------------------------------------------------------------------

\* this step is an invocation of storescu that exits non-zero without the
\* congestion marker
PermanentFailureStep ==
    /\ pc = "transmit"
    /\ tries' = tries + 1
    /\ storescu'.returncode # 0
    /\ ~storescu'.marker

\* this step finds that the file has no SOPClassUID
NoSopStep ==
    /\ pc = "tag"
    /\ Last(outcomes').xmit = "no_sop"

RawInputs == {i \in Inputs : i.kind = "single"}

\* C21: when dicom_send.run has returned for an input that is neither a zip
\* nor a tar archive, the working directory tag_and_transmit.run iterated
\* over holds exactly that one input file.
C21_AsStated ==
    [][\A input \in RawInputs :
        (MainRunOn(input) /\ send_pc' = "returned")
            => work_dir' = input.members]_vars

\* C22: in download mode the working directory is empty whenever
\* download_and_send is about to stage the next downloaded file (or has
\* staged them all): what was extracted for one downloaded file is gone
\* before a later one is staged, tagged or transmitted.
C22_WorkDirWiped ==
    (download /\ send_pc = "download") => work_dir = <<>>

\* C22: two downloaded archives with DICOM files were processed one after
\* the other and the working directory is empty again.
C22_Witness ==
    /\ download
    /\ send_pc = "download"
    /\ Len(processed) = 2
    /\ processed[1].present >= 1
    /\ processed[2].present >= 1
    /\ work_dir = <<>>

\* ------------------------------------------------------------------------
\* The order of the steps of a download run: download_and_send,
\* dicom_send.run, tag_and_transmit.run and transmit_dicom_file of the gear,
\* with Popen and communicate as separate steps
\* ------------------------------------------------------------------------

MaxTries == 2

\* the fields that do not take part: the objects, the clock, TLS, is_dcm
SeqRest ==
    /\ dicomfile = EmptyDataset
    /\ before = EmptyDataset
    /\ original = EmptyDataset
    /\ identifier = Flywheel
    /\ tag_value = DicomSend
    /\ impl = "gear"
    /\ calls = <<>>
    /\ disk = EmptyDataset
    /\ clock = 0
    /\ elapsed = 0
    /\ wait = 0
    /\ abort_cause = "none"
    /\ TlsIdle
    /\ DcmIdle
    /\ infile = NoInput
    /\ work_dir = <<>>
    /\ published = FALSE
    /\ exit_status = -1
    /\ exit_cause = "none"

SeqInit ==
    /\ SeqRest
    /\ variant = "gear"
    /\ send_variant = "gear"
    /\ download = TRUE
    /\ send_pc = "download"
    /\ ninputs \in 1..MaxInputs
    /\ ledger = <<>>
    /\ totals = NoTotals
    /\ processed = <<>>
    /\ pc = "idle"
    /\ nfiles = 0
    /\ idx = 0
    /\ dicoms_present = 0
    /\ dicoms_sent = 0
    /\ dicom_transmitted = "unbound"
    /\ tries = 0
    /\ storescu = NoResult
    /\ outcomes = <<>>
    /\ running = 0
    /\ downloads = 0

\* download_and_send: download_file for the next file of type dicom, then
\* the call of dicom_send.run, which stages it and enters
\* tag_and_transmit.run with the objects found
SeqDownload ==
    /\ send_pc = "download"
    /\ downloads < ninputs
    /\ downloads' = downloads + 1
    /\ send_pc' = "run"
    /\ nfiles' \in 0..NumFiles
    /\ idx' = 0
    /\ dicoms_present' = 0
    /\ dicoms_sent' = 0
    /\ dicom_transmitted' = "unbound"
    /\ tries' = 0
    /\ storescu' = NoResult
    /\ outcomes' = <<>>
    /\ pc' = "loop"
    /\ UNCHANGED <<dicomfile, tagvars, tlsvars, dcmvars, variant, disk, clock,
                   elapsed, wait, abort_cause, send_variant, download, ninputs,
                   infile, work_dir, ledger, published, totals, exit_status,
                   exit_cause, processed, running>>

\* run: "for dcm in dcms", dicoms_present += 1
SeqNextFile ==
    /\ send_pc = "run"
    /\ pc = "loop"
    /\ idx < nfiles
    /\ idx' = idx + 1
    /\ dicoms_present' = dicoms_present + 1
    /\ outcomes' = Append(outcomes, [tag |-> "pending", xmit |-> "pending"])
    /\ tries' = 0
    /\ storescu' = NoResult
    /\ pc' = "tag"
    /\ UNCHANGED <<dicomfile, tagvars, tlsvars, dcmvars, sendvars, variant,
                   nfiles, disk, dicoms_sent, dicom_transmitted, clock,
                   elapsed, wait, abort_cause, running, downloads>>

\* run: add_private_tag, save, and the SOPClassUID check: "continue", or
\* dicom_transmitted = False and the call of transmit_dicom_file
SeqTag ==
    /\ pc = "tag"
    /\ \E sop \in SopKinds :
        IF sop = "missing"
        THEN /\ pc' = "loop"
             /\ outcomes' = SetLast(outcomes,
                                    [tag |-> "added", xmit |-> "no_sop"])
             /\ UNCHANGED dicom_transmitted
        ELSE /\ pc' = "popen"
             /\ outcomes' = SetLast(outcomes,
                                    [tag |-> "added", xmit |-> "pending"])
             /\ dicom_transmitted' = "False"
    /\ UNCHANGED <<dicomfile, tagvars, tlsvars, dcmvars, sendvars, variant,
                   nfiles, idx, disk, dicoms_present, dicoms_sent, tries,
                   clock, elapsed, wait, storescu, abort_cause, running,
                   downloads>>

\* transmit_dicom_file: subprocess.Popen(command, ...)
Popen ==
    /\ pc = "popen"
    /\ running' = running + 1
    /\ pc' = "communicate"
    /\ UNCHANGED <<dicomfile, tagvars, tlsvars, dcmvars, sendvars, variant,
                   nfiles, idx, disk, dicoms_present, dicoms_sent,
                   dicom_transmitted, tries, clock, elapsed, wait, storescu,
                   outcomes, abort_cause, downloads>>

\* the process left running
communicate_notAwaited(processes) == processes

\* process.communicate() returns when the process has terminated
communicate(processes) == processes - 1

\* transmit_dicom_file after process.communicate(): it returns, or raises
\* TemporaryFailure, on which backoff sleeps and calls it again or gives up
\* and run catches the exception
Communicate ==
    /\ pc = "communicate"
    /\ running' = communicate(running)
    /\ tries' = tries + 1
    /\ \E result \in ToolResults :
        /\ storescu' = result
        /\ IF transmit_dicom_file(result) # "TemporaryFailure"
           THEN /\ dicom_transmitted' = transmit_dicom_file(result)
                /\ dicoms_sent' = IF transmit_dicom_file(result) = "True"
                                  THEN dicoms_sent + 1 ELSE dicoms_sent
                /\ outcomes' = SetLast(outcomes,
                       [Last(outcomes) EXCEPT
                            !.xmit = transmit_dicom_file(result)])
                /\ pc' = "loop"
           ELSE \/ /\ tries < MaxTries
                   /\ pc' = "sleep"
                   /\ UNCHANGED <<dicom_transmitted, dicoms_sent, outcomes>>
                \/ /\ outcomes' = SetLast(outcomes,
                          [Last(outcomes) EXCEPT !.xmit = "TemporaryFailure"])
                   /\ pc' = "loop"
                   /\ UNCHANGED <<dicom_transmitted, dicoms_sent>>
    /\ UNCHANGED <<dicomfile, tagvars, tlsvars, dcmvars, sendvars, variant,
                   nfiles, idx, disk, dicoms_present, clock, elapsed, wait,
                   abort_cause, downloads>>

\* backoff: time.sleep(seconds), then the next call
SeqBackoff ==
    /\ pc = "sleep"
    /\ pc' = "popen"
    /\ UNCHANGED <<dicomfile, tagvars, tlsvars, dcmvars, sendvars, variant,
                   nfiles, idx, disk, dicoms_present, dicoms_sent,
                   dicom_transmitted, tries, clock, elapsed, wait, storescu,
                   outcomes, abort_cause, running, downloads>>

\* run returns the counts, dicom_send.run appends the ledger row,
\* download_and_send adds to its totals and wipes the working directory
SeqReport ==
    /\ send_pc = "run"
    /\ pc = "loop"
    /\ idx = nfiles
    /\ ledger' = generate_report(ledger, "acq", Len(processed) + 1,
                                 dicoms_present, dicoms_sent)
    /\ processed' = Append(processed,
                           Call(Len(processed) + 1, dicoms_present,
                                dicoms_sent))
    /\ totals' = [present |-> totals.present + dicoms_present,
                  sent |-> totals.sent + dicoms_sent,
                  data_flag |-> TRUE]
    /\ send_pc' = "download"
    /\ pc' = "idle"
    /\ UNCHANGED <<dicomfile, tagvars, runvars_but_pc, tlsvars, dcmvars,
                   seqvars, send_variant, download, ninputs, infile, work_dir,
                   published, exit_status, exit_cause>>

SeqNext ==
    \/ SeqDownload
    \/ SeqNextFile
    \/ SeqTag
    \/ Popen
    \/ Communicate
    \/ SeqBackoff
    \/ SeqReport

SeqSpec == SeqInit /\ [][SeqNext]_vars

\* the files of the current run whose outcome is final
Settled(k) == outcomes[k].xmit # "pending"

\* C23: at most one storescu process is in progress at any time; a file is
\* tagged only when no process is running and every earlier file of the run
\* has its final outcome; and a download starts only when the ledger has a
\* row for every earlier download.
C23_Sequential ==
    /\ [](/\ running <= 1
          /\ (pc \in {"tag", "loop", "idle"} => running = 0)
          /\ (pc = "tag" => \A k \in 1..(Len(outcomes) - 1) : Settled(k))
          /\ (send_pc = "download" => running = 0))
    /\ [][downloads' = downloads + 1
            => /\ running = 0
               /\ Len(processed) = downloads
               /\ Len(ledger) = IF downloads = 0 THEN 0
                                ELSE downloads + 1]_vars

\* C23: in the second download the second file is about to be tagged after
\* the first was transmitted, and no process is running.
C23_Witness ==
    /\ downloads = 2
    /\ Len(ledger) = 2
    /\ pc = "tag"
    /\ idx = 2
    /\ outcomes[1].xmit = "True"
    /\ dicoms_sent = 1
    /\ running = 0

\* ------------------------------------------------------------------------
\* Further properties of add_private_tag (TagSpec)
\* ------------------------------------------------------------------------

\* the creator offsets of the object that hold the identifier
Owners(ds, id) == {e \in CreatorOffsets : HoldsIdentifier(ds, e, id)}

\* C24 as stated: when at most one creator element held the identifier
\* before the call, at most one holds it after the call, and a returned slot
\* lies in the block e*0x100..e*0x100+0xFF of that creator's offset e.
C24_AsStated ==
    (Len(calls) >= 1 /\ Cardinality(Owners(before, identifier)) <= 1)
        => /\ Cardinality(Owners(dicomfile, identifier)) <= 1
           /\ (Last(calls).outcome = "return"
                 => \E e \in Owners(dicomfile, identifier) :
                        /\ Last(calls).slot[1] = 33
                        /\ Last(calls).slot[2] \in (e * 256)..(e * 256 + 255))

\* C27 as stated: whenever the gear's add_private_tag returns normally it
\* returns a slot, and the object holds at that slot an element that starts
\* with the tag value, in the block of a creator element holding the
\* identifier; also when the identifier's block is full and all other
\* creator offsets belong to other owners.
C27_AsStated ==
    (/\ Len(calls) >= 1
     /\ impl = "gear"
     /\ Last(calls).outcome \in {"return", "return_none"})
    => /\ Last(calls).slot # None
       /\ LET e == Last(calls).slot[2] \div 256
              i == Last(calls).slot[2] % 256
          IN  /\ e \in Owners(dicomfile, identifier)
              /\ i \in TaggedPositions(Block(dicomfile, e), tag_value)

\* the data elements of the object: creator offset and position in its block
DataElems(ds) ==
    {<<k, i>> \in (DOMAIN ds.blocks) \X (0..255) : ds.blocks[k][i] # Absent}

\* C28 as stated: every element that existed before the call exists after it
\* with the same value, and the call adds at most one creator element and at
\* most one data element; also when a data element exists at offset*0x100
\* under a free creator offset.
C28_AsStated ==
    Len(calls) >= 1
        => /\ \A e \in CreatorOffsets :
                before.creators[e] # Absent
                    => dicomfile.creators[e] = before.creators[e]
           /\ \A p \in DataElems(before) :
                /\ p \in DataElems(dicomfile)
                /\ dicomfile.blocks[p[1]][p[2]] = before.blocks[p[1]][p[2]]
           /\ Cardinality(ChangedCreators(before, dicomfile)) <= 1
           /\ Cardinality(DataElems(dicomfile) \ DataElems(before)) <= 1

\* ------------------------------------------------------------------------
\* Further properties of tag_and_transmit.run (Spec)
\* ------------------------------------------------------------------------

\* C25: at every point of run dicoms_sent <= dicoms_present, a file raises
\* dicoms_sent by at most 1 (only the step that ends the file's loop body
\* raises it, and by 1), and the row written from the counts run returns has
\* status Complete or Incomplete, never Error.
C25_SentAtMostPresent ==
    /\ [](/\ dicoms_sent <= dicoms_present
          /\ dicoms_sent <= idx
          /\ (pc = "done" => status_of(dicoms_present, dicoms_sent)
                                 \in {"Complete", "Incomplete"}))
    /\ [][dicoms_sent' # dicoms_sent
            => /\ dicoms_sent' = dicoms_sent + 1
               /\ pc \in {"tag", "transmit"}
               /\ pc' = "loop"
               /\ idx' = idx]_vars

\* C25: a run over two files has returned with one of them sent.
C25_Witness ==
    /\ pc = "done"
    /\ dicoms_present = 2
    /\ dicoms_sent = 1
    /\ status_of(dicoms_present, dicoms_sent) = "Incomplete"

\* the files of the run whose transmit_dicom_file call returned true
SentFiles == {k \in 1..Len(outcomes) : outcomes[k].xmit = "True"}

\* C26 as stated: in utils, dicoms_sent counts exactly the files whose own
\* transmit_dicom_file call returned true; a file whose retries end in
\* TemporaryFailure is counted not-sent and no exception leaves run.
C26_AsStated ==
    variant = "utils"
        => /\ (pc \in {"loop", "done"}
                 => dicoms_sent = Cardinality(SentFiles))
           /\ ((outcomes # <<>> /\ Last(outcomes).xmit = "TemporaryFailure")
                 => pc # "aborted")

\* the object holds the export marker: an element that starts with the tag
\* value in the block of a creator element holding the identifier
Marked(ds) ==
    \E e \in Owners(ds, identifier) :
        TaggedPositions(Block(ds, e), tag_value) # {}

\* the file the loop is at has been through the tagging step and was not
\* the end of the run there
PastTagging ==
    \/ pc \in {"transmit", "sleep"}
    \/ /\ outcomes # <<>>
       /\ Last(outcomes).xmit \in {"True", "False", "TemporaryFailure",
                                   "no_sop"}

RECURSIVE SumRows(_, _)
SumRows(rows, col) ==
    IF rows = <<>> THEN 0
    ELSE Head(rows)[col] + SumRows(Tail(rows), col)

ColumnSum(file, col) == IF file = <<>> THEN 0 ELSE SumRows(Tail(file), col)

\* C30: in download mode of the gear, after any number of downloaded files,
\* dcms_present and dcms_sent equal the sums of the Images_In_Series and
\* Images_Sent columns of the ledger rows appended so far, and there is one
\* row per downloaded file for which run was called and returned.
C30_TotalsAreColumnSums ==
    (send_variant = "gear" /\ download)
        => /\ totals.present = ColumnSum(ledger, 4)
           /\ totals.sent = ColumnSum(ledger, 5)
           /\ Len(ledger) = IF processed = <<>> THEN 0
                            ELSE Len(processed) + 1

\* C30: two downloaded files were processed, with 2 of 3 and 1 of 1 objects
\* sent.
C30_Witness ==
    /\ send_variant = "gear"
    /\ download
    /\ Len(processed) = 2
    /\ ledger[2][4] = 3 /\ ledger[2][5] = 2
    /\ ledger[3][4] = 1 /\ ledger[3][5] = 1
    /\ totals.present = 4
    /\ totals.sent = 3

====
